---- MODULE Spec2Model ----
(***************************************************************************)
(* graphql-api-koa: the errorHandler and execute Koa middleware.          *)
(*                                                                         *)
(* One Koa app is modelled: errorHandler first, then a handler upstream   *)
(* of execute, then execute, then a handler downstream of execute.        *)
(* The repository holds two execute middleware, src/src/index.mjs:137 and *)
(* src/src/execute.mjs:44; `impl` says which one the app installed.       *)
(* Requests are served one after the other.                               *)
(*                                                                         *)
(* src/src/execute.mjs imports checkOptions, checkSchema,                 *)
(* isEnumerableObject and createHttpError from modules that are not among *)
(* the source files; the model uses for them the definitions of the same  *)
(* purpose in src/src/index.mjs (checkOptions, checkSchema, isPlainObject)*)
(* and createError of http-errors.  graphql's parse, validate, execute,   *)
(* validateSchema and formatError are modelled by their outcomes.         *)
(*                                                                         *)
(* JavaScript values are records.  Messages are sequences of strings, so  *)
(* that "the message contains the parser's message" is a statement about  *)
(* the sequence.                                                           *)
(***************************************************************************)
EXTENDS Integers, Sequences, FiniteSets, TLC

\* Longest list of simultaneous GraphQL errors (schema, validation, resolver).
MaxErrors == 2

VARIABLES
  impl,            \* "index" | "execute": the module whose execute is installed
  setup,           \* "pending" | "installed" | "threw": execute(options)
  options,         \* the options the middleware closure retains
  setupError,      \* the error execute(options) threw
  pc,              \* where the request in flight is in the chain
  reqBody,         \* ctx.request.body
  resStatus,       \* ctx.response.status
  resBody,         \* ctx.response.body
  requestOptions,  \* the per-request merged options (local of the handler)
  thrown,          \* the value thrown down the chain, as errorHandler catches it
  overrideResult,  \* what `await override(ctx)` resolved with
  validation,      \* what validate(schema, document) returned
  result,          \* what executeGraphQL resolved with
  calls,           \* how often this request invoked the execute middleware,
                   \* the override, validate and executeGraphQL
  emitted          \* the values given to ctx.app.emit('error', ...)

vars == <<impl, setup, options, setupError, pc, reqBody, resStatus, resBody,
          requestOptions, thrown, overrideResult, validation, result, calls,
          emitted>>

(***************************************************************************)
(* Errors                                                                  *)
(***************************************************************************)

\* graphqlErrors: has = the property is an array.
NoGql == [has |-> FALSE, list |-> <<>>]

Gql(list) == [has |-> TRUE, list |-> list]

\* A GraphQLError.  original: "none" (no originalError: schema, validation),
\* "exposed" (originalError.expose === true) or "unexposed".
GqlErr(message, original) == [message |-> message, original |-> original]

\* An error value.  kind: "none" (no value), "Error" (an Error that is no
\* HttpError), "HttpError" (built by an http-errors constructor), "string"
\* (a raw string that was thrown).  status 0 = undefined.
Err(kind, status, expose, message, gql) ==
  [kind |-> kind, status |-> status, expose |-> expose, message |-> message,
   gql |-> gql]

NoErr == Err("none", 0, "undef", <<>>, NoGql)

NoProps == [expose |-> "undef", gql |-> NoGql]

\* The codes of the `statuses` package http-errors consults.
StatusCodes ==
  (100..103) \cup (200..208) \cup {226} \cup (300..308) \cup (400..418)
  \cup (421..426) \cup {428, 429, 431, 451} \cup (500..511)

\* statuses[status], for the codes the model uses.
StatusMessage(status) ==
  CASE status = 200 -> <<"OK">>
    [] status = 400 -> <<"Bad Request">>
    [] status = 503 -> <<"Service Unavailable">>
    [] OTHER -> <<"Internal Server Error">>

\* createError(...) of http-errors 1.7: an optional Error, status, message and
\* properties.  statusArg 0 and msg <<>> stand for an argument not given.
CreateError(err, statusArg, msg, props) ==
  LET isErr == err.kind \in {"Error", "HttpError"}
      \* status = err.status || err.statusCode || status
      s0 == IF statusArg # 0 THEN statusArg ELSE 500
      s1 == IF isErr /\ err.status # 0 THEN err.status
            ELSE IF err.kind = "string" THEN 500 ELSE s0
      \* an unknown status outside 4xx/5xx becomes 500
      s == IF s1 \notin StatusCodes /\ (s1 < 400 \/ s1 >= 600) THEN 500 ELSE s1
      \* createError[status] || createError[codeClass(status)]
      hasCtor == s >= 400 /\ s < 600
      \* a thrown string is the message argument
      m == IF err.kind = "string" THEN err.message ELSE msg
      fresh == IF hasCtor
               THEN Err("HttpError", s, IF s < 500 THEN "true" ELSE "false",
                        IF m # <<>> THEN m ELSE StatusMessage(s), NoGql)
               ELSE Err("Error", 0, "undef",
                        IF m # <<>> THEN m ELSE StatusMessage(s), NoGql)
      e0 == IF isErr THEN err ELSE fresh
      \* "add properties to generic error"
      e1 == IF ~hasCtor \/ e0.kind # "HttpError" \/ e0.status # s
            THEN [e0 EXCEPT !.expose = IF s < 500 THEN "true" ELSE "false",
                            !.status = s]
            ELSE e0
      e2 == IF props.expose # "undef" THEN [e1 EXCEPT !.expose = props.expose]
            ELSE e1
  IN IF props.gql.has THEN [e2 EXCEPT !.gql = props.gql] ELSE e2

\* formatError(error) of graphql: the message (locations, path and
\* extensions are not set on the errors of the model).
FormatError(error) == [message |-> error.message]

FormatAll(list) == [i \in 1..Len(list) |-> FormatError(list[i])]

(***************************************************************************)
(* JavaScript values                                                       *)
(***************************************************************************)

\* A value that should be an object (options, an override's result, a request
\* body).  t: "undefined", "null", "array" (the empty array), "number",
\* "string" (a one-character string) or "object"; o: the own enumerable
\* properties of an object, a function from keys to property values.
Value(t) == [t |-> t, o |-> [k \in {} |-> 0]]

Object(o) == [t |-> "object", o |-> o]

\* A property value.  t: "undefined", "value" (anything opaque), "function",
\* "schema" (a GraphQLSchema instance with errs structural errors).  id tells
\* values apart: who supplied it.
Prop(t, id, errs) == [t |-> t, id |-> id, errs |-> errs]

Undefined == Prop("undefined", "", 0)

\* options[key], undefined when the key is not there.
Get(v, key) == IF v.t = "object" /\ key \in DOMAIN v.o THEN v.o[key] ELSE Undefined

\* { ...a, ...b }: b's properties over a's; spreading a non-object adds nothing
\* (the empty array, a number) and a one-character string adds key "0".
Spread(a, b) ==
  LET oa == IF a.t = "object" THEN a.o
            ELSE IF a.t = "string" THEN [k \in {"0"} |-> Prop("value", "char", 0)]
            ELSE [k \in {} |-> Undefined]
      ob == IF b.t = "object" THEN b.o
            ELSE IF b.t = "string" THEN [k \in {"0"} |-> Prop("value", "char", 0)]
            ELSE [k \in {} |-> Undefined]
  IN Object([k \in DOMAIN oa \cup DOMAIN ob |->
               IF k \in DOMAIN ob THEN ob[k] ELSE oa[k]])

\* const { override, ...staticOptions } = options
Without(v, key) == Object([k \in DOMAIN v.o \ {key} |-> v.o[k]])

\* The order in which the keys of the model's objects were inserted.
KeyOrder ==
  <<"schema", "rootValue", "contextValue", "fieldResolver", "validationRules",
    "executeFn", "override", "bogus", "query", "0">>

\* Object.keys(value) of a value that is neither undefined nor null, as a list.
ObjectKeys(v) ==
  LET keys == IF v.t = "object" THEN DOMAIN v.o
              ELSE IF v.t = "string" THEN {"0"} ELSE {}
  IN SelectSeq(KeyOrder, LAMBDA k : k \in keys)

Range(seq) == {seq[i] : i \in 1..Len(seq)}

\* A function that may throw returns Ok or Threw(error).
Ok == [threw |-> FALSE, error |-> NoErr]

Threw(error) == [threw |-> TRUE, error |-> error]

\* The TypeError of Object.keys(undefined) and of reading a property of
\* undefined or null.
TypeError == Err("Error", 0, "undef", <<"TypeError">>, NoGql)

(***************************************************************************)
(* Helpers of the middleware                                               *)
(***************************************************************************)

isPlainObject(value) == value.t = "object"

ALLOWED_EXECUTE_OPTIONS ==
  {"schema", "rootValue", "contextValue", "fieldResolver", "override"}

checkOptions(opts, allowed, description) ==
  IF opts.t \in {"undefined", "null"} THEN Threw(TypeError)
  ELSE LET invalid == SelectSeq(ObjectKeys(opts), LAMBDA k : k \notin allowed)
       IN IF Len(invalid) > 0
          THEN Threw(CreateError(NoErr, 0,
                       <<description, " options invalid: ">> \o invalid, NoProps))
          ELSE Ok

\* validateSchema(schema): one error for each structural error of the schema.
validateSchema(schema) ==
  [i \in 1..schema.errs |-> GqlErr(<<"schema error", ToString(i)>>, "none")]

\* checkSchema with a slip: the schema's structural errors are not looked at.
checkSchemaInstanceOnly(schema) ==
  IF schema.t # "schema"
  THEN Threw(CreateError(NoErr, 0,
         <<"GraphQL schema is required and must be a GraphQLSchema instance.">>,
         NoProps))
  ELSE Ok

checkSchema(schema) ==
  IF schema.t # "schema"
  THEN Threw(CreateError(NoErr, 0,
         <<"GraphQL schema is required and must be a GraphQLSchema instance.">>,
         NoProps))
  ELSE LET schemaValidationErrors == validateSchema(schema)
       IN IF Len(schemaValidationErrors) > 0
          THEN Threw(CreateError(NoErr, 0, <<"GraphQL schema validation errors.">>,
                       [expose |-> "undef", gql |-> Gql(schemaValidationErrors)]))
          ELSE Ok

(***************************************************************************)
(* Inputs                                                                  *)
(***************************************************************************)

\* Marks a key an object does not have.
Absent == Prop("absent", "", 0)

PassThrough == {"rootValue", "contextValue", "fieldResolver"}

PassChoices == {{}, {"contextValue"}, PassThrough}

ExtraChoices == {{}, {"validationRules"}, {"executeFn"}, {"bogus"},
                 {"validationRules", "bogus"}}

\* A schema option: a valid schema, schemas with structural errors, and a
\* value that is no GraphQLSchema instance.
SchemaChoices(id) ==
  {Prop("schema", id, n) : n \in 0..MaxErrors} \cup {Prop("value", id, 0)}

\* An object with the given schema and override properties (Absent: none),
\* the keys of pass and extra, every other value tagged id.
MkObject(schemaP, overrideP, pass, extra, id) ==
  LET keys == (IF schemaP.t = "absent" THEN {} ELSE {"schema"})
              \cup (IF overrideP.t = "absent" THEN {} ELSE {"override"})
              \cup pass \cup extra
  IN Object([k \in keys |->
               IF k = "schema" THEN schemaP
               ELSE IF k = "override" THEN overrideP
               ELSE Prop("value", id, 0)])

\* What an app may pass to execute(options).
SetupOptions ==
  {Value("undefined"), Value("null"), Value("array")}
  \cup {MkObject(s, o, pass, extra, "static") :
          s \in {Absent} \cup SchemaChoices("static"),
          o \in {Absent, Prop("function", "override", 0),
                 Prop("value", "static", 0)},
          pass \in PassChoices, extra \in ExtraChoices}

\* What an override function may resolve with.
OverrideResults ==
  {Value("undefined"), Value("null"), Value("array"), Value("number"),
   Value("string")}
  \cup {MkObject(s, o, pass, extra, "override") :
          s \in {Absent, Undefined} \cup SchemaChoices("override"),
          o \in {Absent, Prop("function", "nested", 0)},
          pass \in PassChoices, extra \in {{}, {"bogus"}}}

\* What the body parser may leave in ctx.request.body.  The query is a
\* source text that parses ("valid") or one that does not ("invalid").
RequestBodies ==
  {Value("undefined"), Value("null"), Value("array"), Value("string"),
   Object([k \in {} |-> Undefined]),
   Object([k \in {"query"} |-> Prop("value", "valid", 0)]),
   Object([k \in {"query"} |-> Prop("value", "invalid", 0)])}

\* The message of the GraphQLError parse throws on the invalid source text.
ParserMessage == "Syntax Error: Expected Name, found <EOF>"

\* The lists graphqlErrors may hold on an error another handler throws.
GqlChoices ==
  {NoGql, Gql(<<>>), Gql(<<GqlErr(<<"attached detail">>, "none")>>)}

\* What a handler other than execute may throw: an Error with any status and
\* expose properties, an error made with http-errors, a raw string.
ThrownValues ==
  {Err("Error", s, x, <<"secret">>, g) :
     s \in {0, 400, 500}, x \in {"undef", "true", "false"}, g \in GqlChoices}
  \cup {CreateError(NoErr, s, <<"secret">>, [expose |-> x, gql |-> g]) :
     s \in {400, 500, 503}, x \in {"undef", "true", "false"}, g \in GqlChoices}
  \cup {Err("string", 0, "undef", <<"secret">>, NoGql)}

\* The errors of an execution result: GraphQLErrors whose original errors
\* were thrown by resolvers, each with or without expose: true.
RECURSIVE ResolverErrorLists(_)
ResolverErrorLists(n) ==
  IF n = 0 THEN {<<>>}
  ELSE {Append(l, GqlErr(<<"resolver error", ToString(n)>>, x)) :
          l \in ResolverErrorLists(n - 1), x \in {"exposed", "unexposed"}}

\* What executeGraphQL may do: throw, or resolve with { data }, with
\* { errors, data } (data an object, or null) or with { errors }.
ExecutionResults ==
  {[threw |-> TRUE, data |-> FALSE, errors |-> NoGql],
   [threw |-> FALSE, data |-> TRUE, errors |-> NoGql]}
  \cup {[threw |-> FALSE, data |-> d, errors |-> Gql(l)] :
          d \in BOOLEAN,
          l \in UNION {ResolverErrorLists(n) : n \in 1..MaxErrors}}

NoResult == [threw |-> FALSE, data |-> FALSE, errors |-> NoGql]

\* validate(schema, document): its errors, in the validator's order.
ValidationErrors(n) ==
  [i \in 1..n |-> GqlErr(<<"validation error", ToString(i)>>, "none")]

\* ctx.response.body: undefined (exists = FALSE) or an object that may have
\* a data and an errors property.
NoBody == [exists |-> FALSE, hasData |-> FALSE, hasErrors |-> FALSE,
           errors |-> <<>>]

DataBody == [exists |-> TRUE, hasData |-> TRUE, hasErrors |-> FALSE,
             errors |-> <<>>]

NoCalls == [handler |-> 0, override |-> 0, validate |-> 0, execute |-> 0]

(***************************************************************************)
(* execute(options): setup                                                 *)
(***************************************************************************)

\* `override` must be undefined or a function.
CheckOverrideOption(opts) ==
  IF Get(opts, "override").t \notin {"undefined", "function"}
  THEN Threw(CreateError(NoErr, 0,
         <<"GraphQL execute middleware override option must be a function.">>,
         NoProps))
  ELSE Ok

\* src/src/execute.mjs: the checks of execute(options) before it returns the
\* middleware.
ExecuteSetup(opts) ==
  IF opts.t = "undefined"
  THEN Threw(CreateError(NoErr, 0,
         <<"GraphQL execute middleware options missing.">>, NoProps))
  ELSE LET keysChecked ==
             checkOptions(opts, ALLOWED_EXECUTE_OPTIONS,
                          "GraphQL execute middleware")
           schemaChecked ==
             IF Get(opts, "schema").t # "undefined"
             THEN checkSchema(Get(opts, "schema")) ELSE Ok
       IN IF keysChecked.threw THEN keysChecked
          ELSE IF schemaChecked.threw THEN schemaChecked
          ELSE CheckOverrideOption(opts)

\* src/src/index.mjs: the same, with the check that options is a plain object.
IndexSetup(opts) ==
  IF opts.t = "undefined"
  THEN Threw(CreateError(NoErr, 0,
         <<"GraphQL execute middleware options missing.">>, NoProps))
  ELSE IF ~isPlainObject(opts)
  THEN Threw(CreateError(NoErr, 0,
         <<"GraphQL execute middleware options must be an object.">>, NoProps))
  ELSE LET keysChecked ==
             checkOptions(opts, ALLOWED_EXECUTE_OPTIONS,
                          "GraphQL execute middleware")
           schemaChecked ==
             IF Get(opts, "schema").t # "undefined"
             THEN checkSchema(Get(opts, "schema")) ELSE Ok
       IN IF keysChecked.threw THEN keysChecked
          ELSE IF schemaChecked.threw THEN schemaChecked
          ELSE CheckOverrideOption(opts)

(***************************************************************************)
(* execute: the middleware, per request                                    *)
(***************************************************************************)

\* BodyChecks with a slip: the query is not parsed here (the parse is left
\* for after the override).
BodyChecksNoParse(body) ==
  IF body.t = "undefined"
  THEN Threw(CreateError(NoErr, 0, <<"Request body missing.">>, NoProps))
  ELSE IF ~isPlainObject(body)
  THEN Threw(CreateError(NoErr, 400, <<"Request body must be a JSON object.">>,
                         NoProps))
  ELSE IF "query" \notin DOMAIN body.o
  THEN Threw(CreateError(NoErr, 400,
                         <<"GraphQL operation field query missing.">>, NoProps))
  ELSE Ok

\* BodyChecks with a slip: the query is looked for before the body is known
\* to be an object, and the parser's message is left out.
BodyChecksSlip(body) ==
  IF body.t = "undefined"
  THEN Threw(CreateError(NoErr, 0, <<"Request body missing.">>, NoProps))
  ELSE IF "query" \notin DOMAIN body.o
  THEN Threw(CreateError(NoErr, 400,
                         <<"GraphQL operation field query missing.">>, NoProps))
  ELSE IF ~isPlainObject(body)
  THEN Threw(CreateError(NoErr, 400, <<"Request body must be a JSON object.">>,
                         NoProps))
  ELSE IF body.o["query"].id # "valid"
  THEN Threw(CreateError(NoErr, 400, <<"GraphQL query syntax error: ">>,
                         NoProps))
  ELSE Ok

\* The checks of ctx.request.body and the parse of its query, the same in
\* both modules.
BodyChecks(body) ==
  IF body.t = "undefined"
  THEN Threw(CreateError(NoErr, 0, <<"Request body missing.">>, NoProps))
  ELSE IF ~isPlainObject(body)
  THEN Threw(CreateError(NoErr, 400, <<"Request body must be a JSON object.">>,
                         NoProps))
  ELSE IF "query" \notin DOMAIN body.o
  THEN Threw(CreateError(NoErr, 400,
                         <<"GraphQL operation field query missing.">>, NoProps))
  ELSE IF body.o["query"].id # "valid"
  THEN Threw(CreateError(NoErr, 400,
                         <<"GraphQL query syntax error: ", ParserMessage>>,
                         NoProps))
  ELSE Ok

\* src/src/execute.mjs: the checks of what the override resolved with.
ExecuteOverrideChecks(overrideOptions) ==
  LET keysChecked ==
        checkOptions(overrideOptions, ALLOWED_EXECUTE_OPTIONS \ {"override"},
                     "GraphQL execute middleware override option resolved")
  IN IF keysChecked.threw THEN keysChecked
     ELSE IF Get(overrideOptions, "schema").t # "undefined"
     THEN checkSchema(Get(overrideOptions, "schema"))
     ELSE Ok

\* src/src/index.mjs: the same, after the check that it is a plain object.
IndexOverrideChecks(optionsOverride) ==
  IF ~isPlainObject(optionsOverride)
  THEN Threw(CreateError(NoErr, 0,
         <<"GraphQL execute middleware options must be an object, or an object promise.">>,
         NoProps))
  ELSE LET keysChecked ==
             checkOptions(optionsOverride,
                          ALLOWED_EXECUTE_OPTIONS \ {"override"},
                          "GraphQL execute middleware override option return")
       IN IF keysChecked.threw THEN keysChecked
          ELSE IF Get(optionsOverride, "schema").t # "undefined"
          THEN checkSchema(Get(optionsOverride, "schema"))
          ELSE Ok

\* src/src/execute.mjs: { ...staticOptions, ...overrideOptions }
ExecuteRequestOptions(opts, overrideOptions) ==
  Spread(Without(opts, "override"), overrideOptions)

\* src/src/index.mjs: { ...options, ...optionsOverride }
IndexRequestOptions(opts, optionsOverride) == Spread(opts, optionsOverride)

\* The error execute throws for n validation errors.
ValidationFailure(n) ==
  CreateError(NoErr, 400, <<"GraphQL query validation errors.">>,
              [expose |-> "undef", gql |-> Gql(ValidationErrors(n))])

\* The Error graphql's validate throws when it is given no schema.
ValidateThrows == Err("Error", 0, "undef", <<"Must provide schema">>, NoGql)

\* The error execute throws when executeGraphQL throws.
InvocationFailure ==
  CreateError(NoErr, 400,
              <<"GraphQL operation field invalid: ", "execute threw">>, NoProps)

\* The error execute throws for a result with errors.
ResultFailure(res) ==
  CreateError(NoErr, 200, <<"GraphQL errors.">>,
              [expose |-> "undef", gql |-> res.errors])

\* BodyAfterExecution with a slip: the data is never written.
BodyAfterExecutionKeeps(body, res) == body

\* if (result.data) ctx.response.body = { data: result.data }
BodyAfterExecution(body, res) == IF res.data THEN DataBody ELSE body

(***************************************************************************)
(* errorHandler                                                            *)
(***************************************************************************)

\* Sanitize with a slip: sets the status of an unexposed error to 500 and keeps
\* its message and graphqlErrors.
SanitizeStatusOnly(httpError) ==
  IF httpError.expose # "true"
  THEN [httpError EXCEPT !.status = 500, !.expose = "false"]
  ELSE httpError

\* Use a generic 500 error if the error is not to be exposed to the client.
Sanitize(httpError) ==
  IF httpError.expose # "true" THEN CreateError(NoErr, 0, <<>>, NoProps)
  ELSE httpError

\* BodyErrors with a slip: of simultaneous errors only the first is formatted.
BodyErrorsFirstOnly(httpError) ==
  IF httpError.gql.has /\ Len(httpError.gql.list) > 0
  THEN <<FormatError(httpError.gql.list[1])>>
  ELSE <<FormatError(httpError)>>

\* The response body's errors.
BodyErrors(httpError) ==
  IF httpError.gql.has THEN FormatAll(httpError.gql.list)
  ELSE <<FormatError(httpError)>>

\* BodyWithErrors with a slip: always makes a new body, dropping the data.
BodyWithErrorsReplaces(body, httpError) ==
  [NoBody EXCEPT !.exists = TRUE, !.hasErrors = TRUE,
                 !.errors = IF httpError.gql.has
                            THEN FormatAll(httpError.gql.list)
                            ELSE <<FormatError(httpError)>>]

\* Create the response body if necessary, and set its errors.
BodyWithErrors(body, httpError) ==
  [(IF ~body.exists THEN [NoBody EXCEPT !.exists = TRUE] ELSE body)
     EXCEPT !.hasErrors = TRUE, !.errors = BodyErrors(httpError)]

\* The error the response is made of: createError(error), sanitized.
HandledError(error) == Sanitize(CreateError(error, 0, <<>>, NoProps))

\* A mutant of EmittedValue: the event carries the error the response was
\* made of.
EmittedValueSanitized(error) == HandledError(error)

\* The value of the error event: the value caught, which createError(error)
\* has given its status and expose properties if it is an Error.
EmittedValue(error) ==
  IF error.kind \in {"Error", "HttpError"}
  THEN CreateError(error, 0, <<>>, NoProps)
  ELSE error

(***************************************************************************)
(* The state machine                                                       *)
(***************************************************************************)

Init ==
  /\ impl \in {"index", "execute"}
  /\ setup = "pending"
  /\ options = Value("undefined")
  /\ setupError = NoErr
  /\ pc = "idle"
  /\ reqBody = Value("undefined")
  /\ resStatus = 404
  /\ resBody = NoBody
  /\ requestOptions = Value("undefined")
  /\ thrown = NoErr
  /\ overrideResult = Value("undefined")
  /\ validation = <<>>
  /\ result = NoResult
  /\ calls = NoCalls
  /\ emitted = <<>>

request == <<pc, reqBody, resStatus, resBody, requestOptions, thrown,
             overrideResult, validation, result, calls, emitted>>

\* A throw inside the chain: control goes to errorHandler's catch.
Throw(error) == pc' = "catch" /\ thrown' = error

\* app.use(execute(options)): the setup, which installs the middleware or
\* throws.
Setup ==
  /\ setup = "pending"
  /\ \E opts \in SetupOptions :
       LET r == IF impl = "execute" THEN ExecuteSetup(opts) ELSE IndexSetup(opts)
       IN /\ options' = opts
          /\ setup' = IF r.threw THEN "threw" ELSE "installed"
          /\ setupError' = r.error
  /\ UNCHANGED <<impl, request>>

\* A request arrives: Koa makes a context (status 404, no body) and calls
\* errorHandler, which awaits next().
Receive ==
  /\ setup = "installed" /\ pc = "idle"
  /\ \E body \in RequestBodies : reqBody' = body
  /\ pc' = "upstream"
  /\ UNCHANGED <<impl, setup, options, setupError, resStatus, resBody,
                 requestOptions, thrown, overrideResult, validation, result,
                 calls, emitted>>

\* The handler between errorHandler and execute throws ...
UpstreamThrows ==
  /\ pc = "upstream"
  /\ \E error \in ThrownValues : Throw(error)
  /\ UNCHANGED <<impl, setup, options, setupError, reqBody, resStatus, resBody,
                 requestOptions, overrideResult, validation, result, calls,
                 emitted>>

\* ... or awaits next().
UpstreamNext ==
  /\ pc = "upstream"
  /\ pc' = "checks"
  /\ UNCHANGED <<impl, setup, options, setupError, reqBody, resStatus, resBody,
                 requestOptions, thrown, overrideResult, validation, result,
                 calls, emitted>>

\* execute: the body checks and the parse.
ExecuteChecks ==
  /\ pc = "checks"
  /\ calls' = [calls EXCEPT !.handler = @ + 1]
  /\ LET r == BodyChecks(reqBody)
     IN IF r.threw THEN Throw(r.error)
        ELSE pc' = "override" /\ UNCHANGED thrown
  /\ UNCHANGED <<impl, setup, options, setupError, reqBody, resStatus, resBody,
                 requestOptions, overrideResult, validation, result, emitted>>

\* execute, no override option: the request options are the static ones.
ExecuteNoOverride ==
  /\ pc = "override"
  /\ Get(options, "override").t # "function"
  /\ requestOptions' =
       IF impl = "execute"
       THEN ExecuteRequestOptions(options, Value("undefined"))
       ELSE IndexRequestOptions(options, Object([k \in {} |-> Undefined]))
  /\ pc' = "validate"
  /\ UNCHANGED <<impl, setup, options, setupError, reqBody, resStatus, resBody,
                 thrown, overrideResult, validation, result, calls, emitted>>

\* execute: await override(ctx), the checks of what it resolved with, the
\* merge.
ExecuteOverride ==
  /\ pc = "override"
  /\ Get(options, "override").t = "function"
  /\ \E r \in OverrideResults :
       LET checked == IF impl = "execute" THEN ExecuteOverrideChecks(r)
                      ELSE IndexOverrideChecks(r)
       IN /\ overrideResult' = r
          /\ calls' = [calls EXCEPT !.override = @ + 1]
          /\ IF checked.threw
             THEN Throw(checked.error) /\ UNCHANGED requestOptions
             ELSE /\ requestOptions' =
                       IF impl = "execute"
                       THEN ExecuteRequestOptions(options, r)
                       ELSE IndexRequestOptions(options, r)
                  /\ pc' = "validate"
                  /\ UNCHANGED thrown
  /\ UNCHANGED <<impl, setup, options, setupError, reqBody, resStatus, resBody,
                 validation, result, emitted>>

\* src/src/execute.mjs: the schema must be defined; validate.
ExecuteValidate ==
  /\ pc = "validate" /\ impl = "execute"
  /\ IF Get(requestOptions, "schema").t = "undefined"
     THEN /\ Throw(CreateError(NoErr, 0, <<"GraphQL schema is required.">>,
                               NoProps))
          /\ UNCHANGED <<validation, calls>>
     ELSE \E n \in 0..MaxErrors :
            /\ validation' = ValidationErrors(n)
            /\ calls' = [calls EXCEPT !.validate = @ + 1]
            /\ IF n > 0 THEN Throw(ValidationFailure(n))
               ELSE pc' = "run" /\ UNCHANGED thrown
  /\ UNCHANGED <<impl, setup, options, setupError, reqBody, resStatus, resBody,
                 requestOptions, overrideResult, result, emitted>>

\* src/src/index.mjs: validate, which throws when the schema is undefined.
IndexValidate ==
  /\ pc = "validate" /\ impl = "index"
  /\ calls' = [calls EXCEPT !.validate = @ + 1]
  /\ IF Get(requestOptions, "schema").t = "undefined"
     THEN Throw(ValidateThrows) /\ UNCHANGED validation
     ELSE \E n \in 0..MaxErrors :
            /\ validation' = ValidationErrors(n)
            /\ IF n > 0 THEN Throw(ValidationFailure(n))
               ELSE pc' = "run" /\ UNCHANGED thrown
  /\ UNCHANGED <<impl, setup, options, setupError, reqBody, resStatus, resBody,
                 requestOptions, overrideResult, result, emitted>>

\* execute: await executeGraphQL(...), write the data, throw the errors or
\* set status 200 and await next().
ExecuteRun ==
  /\ pc = "run"
  /\ \E res \in ExecutionResults :
       /\ result' = res
       /\ calls' = [calls EXCEPT !.execute = @ + 1]
       /\ IF res.threw
          THEN Throw(InvocationFailure) /\ UNCHANGED <<resBody, resStatus>>
          ELSE /\ resBody' = BodyAfterExecution(resBody, res)
               /\ IF res.errors.has
                  THEN Throw(ResultFailure(res)) /\ UNCHANGED resStatus
                  ELSE /\ resStatus' = 200
                       /\ pc' = "downstream"
                       /\ UNCHANGED thrown
  /\ UNCHANGED <<impl, setup, options, setupError, reqBody, requestOptions,
                 overrideResult, validation, emitted>>

\* The handler after execute throws ...
DownstreamThrows ==
  /\ pc = "downstream"
  /\ \E error \in ThrownValues : Throw(error)
  /\ UNCHANGED <<impl, setup, options, setupError, reqBody, resStatus, resBody,
                 requestOptions, overrideResult, validation, result, calls,
                 emitted>>

\* ... or returns: the chain unwinds through errorHandler's try, which does
\* nothing more.
DownstreamReturns ==
  /\ pc = "downstream"
  /\ pc' = "done"
  /\ UNCHANGED <<impl, setup, options, setupError, reqBody, resStatus, resBody,
                 requestOptions, thrown, overrideResult, validation, result,
                 calls, emitted>>

\* errorHandler: the catch block.
ErrorHandlerCatch ==
  /\ pc = "catch"
  /\ LET httpError == HandledError(thrown)
     IN /\ resStatus' = httpError.status
        /\ resBody' = BodyWithErrors(resBody, httpError)
  /\ emitted' = Append(emitted, EmittedValue(thrown))
  /\ pc' = "done"
  /\ UNCHANGED <<impl, setup, options, setupError, reqBody, requestOptions,
                 thrown, overrideResult, validation, result, calls>>

\* The response is sent; the app waits for the next request.
Respond ==
  /\ pc = "done"
  /\ pc' = "idle"
  /\ reqBody' = Value("undefined")
  /\ resStatus' = 404
  /\ resBody' = NoBody
  /\ requestOptions' = Value("undefined")
  /\ thrown' = NoErr
  /\ overrideResult' = Value("undefined")
  /\ validation' = <<>>
  /\ result' = NoResult
  /\ calls' = NoCalls
  /\ emitted' = <<>>
  /\ UNCHANGED <<impl, setup, options, setupError>>

Next ==
  \/ Setup
  \/ Receive
  \/ UpstreamThrows
  \/ UpstreamNext
  \/ ExecuteChecks
  \/ ExecuteNoOverride
  \/ ExecuteOverride
  \/ ExecuteValidate
  \/ IndexValidate
  \/ ExecuteRun
  \/ DownstreamThrows
  \/ DownstreamReturns
  \/ ErrorHandlerCatch
  \/ Respond

Spec == Init /\ [][Next]_vars

(***************************************************************************)
(* Properties                                                              *)
(***************************************************************************)

\* The one error of the generic response.
GenericErrors == <<[message |-> <<"Internal Server Error">>]>>

\* The messages of the errors attached to an error as graphqlErrors.
AttachedMessages(error) ==
  {error.gql.list[i].message : i \in 1..Len(error.gql.list)}

BodyMessages == {resBody.errors[i].message : i \in 1..Len(resBody.errors)}

\* C1 (exposure law): once errorHandler has handled a thrown value that does
\* not have expose === true, the status is 500, the body's errors are exactly
\* the generic error, and neither the thrown value's message nor the messages
\* of its graphqlErrors are in the body.
C1_ExposureLaw ==
  (pc = "done" /\ thrown.kind # "none" /\ thrown.expose # "true")
    => /\ resStatus = 500
       /\ resBody.hasErrors /\ resBody.errors = GenericErrors
       /\ thrown.message \notin BodyMessages
       /\ AttachedMessages(thrown) \cap BodyMessages = {}

\* C2 as stated: whenever the final status is 500 the body is exactly
\* { errors: [{ message: "Internal Server Error" }] }, with no data.
C2_Generic500Body ==
  (pc = "done" /\ resStatus = 500)
    => resBody = [exists |-> TRUE, hasData |-> FALSE, hasErrors |-> TRUE,
                  errors |-> GenericErrors]

\* C2 as amended: whenever the final status is 500 and the thrown value did
\* not have expose === true, the body's errors are exactly the generic error;
\* the body has a data field only if the executor wrote it before a later
\* handler failed.
C2_Generic500Errors ==
  (pc = "done" /\ resStatus = 500 /\ thrown.expose # "true")
    => /\ resBody.exists /\ resBody.hasErrors
       /\ resBody.errors = GenericErrors
       /\ resBody.hasData
            => (calls.execute = 1 /\ result.data /\ ~result.errors.has)

C2_Witness ==
  pc = "done" /\ resStatus = 500 /\ thrown.expose # "true" /\ resBody.hasData

\* C3: a request whose document has N >= 1 validation errors ends with status
\* 400 and exactly the N errors, formatted, in the validator's order; the
\* execution primitive is not invoked for it.
C3_ValidationErrors ==
  Len(validation) >= 1
    => /\ calls.execute = 0
       /\ pc \in {"catch", "done"}
       /\ pc = "done"
            => /\ resStatus = 400
               /\ resBody.hasErrors /\ ~resBody.hasData
               /\ Len(resBody.errors) = Len(validation)
               /\ resBody.errors = FormatAll(validation)

C3_Witness ==
  pc = "done" /\ Len(validation) >= 2 /\ Len(resBody.errors) >= 2

\* C4: an execution whose result has one or more errors ends with status 200,
\* the body's errors being all of them, formatted, in order, and the body's
\* data still there if the result had data.
C4_ResolverErrors ==
  (pc = "done" /\ result.errors.has /\ Len(result.errors.list) >= 1)
    => /\ resStatus = 200
       /\ resBody.hasErrors
       /\ resBody.errors = FormatAll(result.errors.list)
       /\ result.data => resBody.hasData

C4_Witness ==
  pc = "done" /\ result.errors.has /\ Len(result.errors.list) >= 2
  /\ result.data /\ resBody.hasData /\ resBody.hasErrors

\* C5: when executeGraphQL resolves with a result without errors, execute
\* writes the body { data } (no errors field), sets status 200 and goes on to
\* the next handler; it throws nothing.
C5_Success ==
  [][(pc = "run" /\ ~result'.threw /\ ~result'.errors.has)
       => /\ pc' = "downstream"
          /\ resBody' = DataBody
          /\ resStatus' = 200
          /\ thrown' = NoErr]_vars

C5_Witness ==
  pc = "downstream" /\ calls.execute = 1 /\ resBody = DataBody
  /\ resStatus = 200 /\ thrown = NoErr

\* The allowed option keys as the documentation lists them.
DocumentedOptions ==
  {"schema", "rootValue", "contextValue", "fieldResolver", "executeFn",
   "validationRules", "override"}

\* The error of checkOptions, and the keys it names.
IsKeyError(error) ==
  Len(error.message) >= 2 /\ error.message[2] = " options invalid: "

NamedKeys(error) == Range(SubSeq(error.message, 3, Len(error.message)))

\* C6: execute(options) fails with the unexposed invalid-options error exactly
\* when options has a key outside {schema, rootValue, contextValue,
\* fieldResolver, executeFn, validationRules, override}, and the error names
\* exactly those keys.
C6_AllowedKeys ==
  (setup # "pending" /\ options.t = "object")
    => LET offending == DOMAIN options.o \ DocumentedOptions
       IN /\ (setup = "threw" /\ IsKeyError(setupError)) <=> offending # {}
          /\ IsKeyError(setupError)
               => /\ setupError.expose # "true"
                  /\ NamedKeys(setupError) = offending

BadSchema(schema) ==
  schema.t = "value" \/ (schema.t = "schema" /\ schema.errs > 0)

\* A configuration error: unexposed, status 500, carrying every structural
\* error of the schema, in order, when the schema is a schema instance.
SchemaFailure(error, schema) ==
  /\ error.kind = "HttpError" /\ error.status = 500 /\ error.expose = "false"
  /\ schema.t = "schema"
       => /\ error.gql.has
          /\ Len(error.gql.list) = schema.errs
          /\ error.gql.list = validateSchema(schema)

\* C8: a schema that is no schema instance or has structural errors, given in
\* the options (whose keys are allowed) or by the override (whose result is an
\* object with allowed keys), makes the setup or the request fail with a
\* configuration error carrying every structural error; validate and
\* executeGraphQL are not invoked.
C8_BadSchema ==
  /\ (setup # "pending" /\ options.t = "object"
      /\ DOMAIN options.o \subseteq ALLOWED_EXECUTE_OPTIONS
      /\ BadSchema(Get(options, "schema")))
       => /\ setup = "threw"
          /\ SchemaFailure(setupError, Get(options, "schema"))
          /\ pc = "idle" /\ calls = NoCalls
  /\ (calls.override = 1 /\ overrideResult.t = "object"
      /\ DOMAIN overrideResult.o
           \subseteq ALLOWED_EXECUTE_OPTIONS \ {"override"}
      /\ BadSchema(Get(overrideResult, "schema")))
       => /\ pc \in {"catch", "done"}
          /\ SchemaFailure(thrown, Get(overrideResult, "schema"))
          /\ calls.validate = 0 /\ calls.execute = 0

C8_Witness ==
  /\ pc = "done" /\ calls.override = 1
  /\ Get(overrideResult, "schema").t = "schema"
  /\ Get(overrideResult, "schema").errs >= 2
  /\ thrown.gql.has /\ Len(thrown.gql.list) >= 2

\* C9: in the response to an execution with errors, every error whose
\* original error lacks expose === true has the message "Internal Server
\* Error".
C9_ResolverErrorsMasked ==
  (pc = "done" /\ result.errors.has)
    => /\ Len(resBody.errors) = Len(result.errors.list)
       /\ \A i \in 1..Len(result.errors.list) :
            result.errors.list[i].original # "exposed"
              => resBody.errors[i].message = <<"Internal Server Error">>

\* C10: the checks of a request go body present, body an object, body has
\* `query`, query parses, and the first that fails decides: no body gives the
\* generic 500; a body that is no object, has no query or a query with a
\* syntax error gives status 400 and exactly one formatted error (holding the
\* parser's message for the syntax error).  Nothing later in execute runs.
C10_InputChecks ==
  (pc = "done" /\ calls.handler = 1)
    => /\ reqBody.t = "undefined"
            => /\ thrown.expose # "true"
               /\ resStatus = 500 /\ resBody.errors = GenericErrors
       /\ reqBody.t \notin {"undefined", "object"}
            => /\ thrown.expose = "true" /\ resStatus = 400
               /\ resBody.errors =
                    <<[message |-> <<"Request body must be a JSON object.">>]>>
       /\ (reqBody.t = "object" /\ "query" \notin DOMAIN reqBody.o)
            => /\ thrown.expose = "true" /\ resStatus = 400
               /\ resBody.errors =
                    <<[message |-> <<"GraphQL operation field query missing.">>]>>
       /\ (reqBody.t = "object" /\ "query" \in DOMAIN reqBody.o
           /\ reqBody.o["query"].id = "invalid")
            => /\ thrown.expose = "true" /\ resStatus = 400
               /\ Len(resBody.errors) = 1
               /\ ParserMessage \in Range(resBody.errors[1].message)
       /\ (reqBody.t # "object" \/ "query" \notin DOMAIN reqBody.o
           \/ reqBody.o["query"].id = "invalid")
            => /\ calls.override = 0 /\ calls.validate = 0 /\ calls.execute = 0
               /\ ~resBody.hasData

C10_Witness ==
  /\ pc = "done" /\ calls.handler = 1 /\ reqBody.t = "object"
  /\ "query" \in DOMAIN reqBody.o /\ reqBody.o["query"].id = "invalid"
  /\ resStatus = 400

\* A request body that passes the body checks and whose query parses.
WellFormedBody(body) ==
  /\ body.t = "object" /\ "query" \in DOMAIN body.o
  /\ body.o["query"].id = "valid"

\* C11: a request invokes the override at most once, and only after its body
\* passed the checks and its query parsed; a request with no body, a body
\* that is no object, no query or a syntax error never invokes it.
C11_OverrideAfterParse ==
  /\ calls.override <= 1
  /\ calls.override = 1 => (calls.handler = 1 /\ WellFormedBody(reqBody))
  /\ (pc # "idle" /\ ~WellFormedBody(reqBody))
       => (calls.override = 0 /\ overrideResult = Value("undefined"))

C11_Witness ==
  /\ pc = "done" /\ calls.override = 1 /\ WellFormedBody(reqBody)
  /\ overrideResult.t = "object"

(***************************************************************************)
(* Concurrent requests                                                     *)
(*                                                                         *)
(* SpecC serves up to MaxRequests requests at once.  The per-request      *)
(* variables (pc, reqBody, ..., emitted) are functions of the request     *)
(* here; impl, setup, options and setupError are the one closure all      *)
(* requests share.  JavaScript runs a handler without interruption from   *)
(* one await to the next, so a step is the code between two awaits:       *)
(* the override and executeGraphQL are the awaits at which requests       *)
(* interleave.  The chain is errorHandler, execute, a handler that        *)
(* returns.                                                                *)
(***************************************************************************)

\* Requests in flight at once.
MaxRequests == 2

Requests == 1..MaxRequests

\* The options of the concurrent app: with and without a static schema, an
\* override, static resolver values.
ConcSetupOptions ==
  {MkObject(Prop("schema", "static", 0), Prop("function", "override", 0),
            PassThrough, {}, "static"),
   MkObject(Absent, Prop("function", "override", 0), {"contextValue"}, {},
            "static"),
   MkObject(Prop("schema", "static", 0), Absent, PassThrough, {}, "static")}

\* What the override resolves with, request by request.
ConcOverrideResults ==
  {MkObject(Absent, Absent, {}, {}, "override"),
   MkObject(Absent, Absent, {"contextValue"}, {}, "override"),
   MkObject(Prop("schema", "override", 0), Absent, PassThrough, {}, "override"),
   MkObject(Undefined, Absent, {}, {}, "override"),
   MkObject(Absent, Absent, {}, {"bogus"}, "override"),
   Value("array")}

ConcBodies ==
  {Object([k \in {} |-> Undefined]),
   Object([k \in {"query"} |-> Prop("value", "valid", 0)])}

ConcExecutionResults ==
  {[threw |-> TRUE, data |-> FALSE, errors |-> NoGql],
   [threw |-> FALSE, data |-> TRUE, errors |-> NoGql],
   [threw |-> FALSE, data |-> TRUE,
    errors |-> Gql(<<GqlErr(<<"resolver error", "1">>, "unexposed")>>)]}

\* The state of a new request.
NewRequest ==
  [pc |-> "idle", reqBody |-> Value("undefined"), resStatus |-> 404,
   resBody |-> NoBody, requestOptions |-> Value("undefined"),
   thrown |-> NoErr, overrideResult |-> Value("undefined"),
   validation |-> <<>>, result |-> NoResult, calls |-> NoCalls,
   emitted |-> <<>>]

\* The state of request r, and its update.
Cur(r) ==
  [pc |-> pc[r], reqBody |-> reqBody[r], resStatus |-> resStatus[r],
   resBody |-> resBody[r], requestOptions |-> requestOptions[r],
   thrown |-> thrown[r], overrideResult |-> overrideResult[r],
   validation |-> validation[r], result |-> result[r], calls |-> calls[r],
   emitted |-> emitted[r]]

Put(r, c) ==
  /\ pc' = [pc EXCEPT ![r] = c.pc]
  /\ reqBody' = [reqBody EXCEPT ![r] = c.reqBody]
  /\ resStatus' = [resStatus EXCEPT ![r] = c.resStatus]
  /\ resBody' = [resBody EXCEPT ![r] = c.resBody]
  /\ requestOptions' = [requestOptions EXCEPT ![r] = c.requestOptions]
  /\ thrown' = [thrown EXCEPT ![r] = c.thrown]
  /\ overrideResult' = [overrideResult EXCEPT ![r] = c.overrideResult]
  /\ validation' = [validation EXCEPT ![r] = c.validation]
  /\ result' = [result EXCEPT ![r] = c.result]
  /\ calls' = [calls EXCEPT ![r] = c.calls]
  /\ emitted' = [emitted EXCEPT ![r] = c.emitted]

\* A mutant of RetainedOptions: the merge assigns the override's properties to
\* the static options (Object.assign) instead of making a new object.
RetainedOptionsAssigned(opts, overrideOptions) == Spread(opts, overrideOptions)

\* The options of the closure after a request merged its override's result:
\* the spread makes a new object, the closure's options are not written.
RetainedOptions(opts, overrideOptions) == opts

\* execute throws: the request goes on in errorHandler's catch block.
Throws(c, error) == [c EXCEPT !.thrown = error, !.pc = "catch"]

\* execute from the merge to the call of executeGraphQL: the request options,
\* the schema check of src/src/execute.mjs, validate with n errors.
Merged(c, overrideOptions, n) ==
  LET c1 == [c EXCEPT !.requestOptions =
                        IF impl = "execute"
                        THEN ExecuteRequestOptions(options, overrideOptions)
                        ELSE IndexRequestOptions(options, overrideOptions)]
      noSchema == Get(c1.requestOptions, "schema").t = "undefined"
      c2 == [c1 EXCEPT !.calls.validate = @ + 1]
  IN IF noSchema /\ impl = "execute"
     THEN Throws(c1, CreateError(NoErr, 0, <<"GraphQL schema is required.">>,
                                 NoProps))
     ELSE IF noSchema THEN Throws(c2, ValidateThrows)
     ELSE IF n > 0
     THEN Throws([c2 EXCEPT !.validation = ValidationErrors(n)],
                 ValidationFailure(n))
     ELSE [c2 EXCEPT !.calls.execute = @ + 1, !.pc = "awaitExecute"]

InitC ==
  /\ impl \in {"index", "execute"}
  /\ setup = "pending"
  /\ options = Value("undefined")
  /\ setupError = NoErr
  /\ pc = [r \in Requests |-> NewRequest.pc]
  /\ reqBody = [r \in Requests |-> NewRequest.reqBody]
  /\ resStatus = [r \in Requests |-> NewRequest.resStatus]
  /\ resBody = [r \in Requests |-> NewRequest.resBody]
  /\ requestOptions = [r \in Requests |-> NewRequest.requestOptions]
  /\ thrown = [r \in Requests |-> NewRequest.thrown]
  /\ overrideResult = [r \in Requests |-> NewRequest.overrideResult]
  /\ validation = [r \in Requests |-> NewRequest.validation]
  /\ result = [r \in Requests |-> NewRequest.result]
  /\ calls = [r \in Requests |-> NewRequest.calls]
  /\ emitted = [r \in Requests |-> NewRequest.emitted]

\* app.use(execute(options)).
SetupC ==
  /\ setup = "pending"
  /\ \E opts \in ConcSetupOptions :
       \E r \in {IF impl = "execute" THEN ExecuteSetup(opts)
                 ELSE IndexSetup(opts)} :
         /\ options' = opts
         /\ setup' = IF r.threw THEN "threw" ELSE "installed"
         /\ setupError' = r.error
  /\ UNCHANGED <<impl, request>>

\* A request arrives and runs to its first await: the body checks, then the
\* call of the override or, without an override, on to executeGraphQL.
StartC(r) ==
  /\ setup = "installed" /\ pc[r] = "idle"
  /\ \E body \in ConcBodies, n \in 0..1 :
       \E c0 \in {[Cur(r) EXCEPT !.reqBody = body, !.calls.handler = @ + 1]},
          checked \in {BodyChecks(body)} :
         \E c \in {IF checked.threw THEN Throws(c0, checked.error)
                   ELSE IF Get(options, "override").t = "function"
                   THEN [c0 EXCEPT !.calls.override = @ + 1,
                                   !.pc = "awaitOverride"]
                   ELSE Merged(c0, IF impl = "execute" THEN Value("undefined")
                                   ELSE Object([k \in {} |-> Undefined]), n)} :
           Put(r, c)
  /\ UNCHANGED <<impl, setup, options, setupError>>

\* The override of request r resolves: its checks, the merge, validate, the
\* call of executeGraphQL.
OverrideResolvesC(r) ==
  /\ pc[r] = "awaitOverride"
  /\ \E o \in ConcOverrideResults, n \in 0..1 :
       \E c0 \in {[Cur(r) EXCEPT !.overrideResult = o]},
          checked \in {IF impl = "execute" THEN ExecuteOverrideChecks(o)
                       ELSE IndexOverrideChecks(o)} :
         \E c \in {IF checked.threw THEN Throws(c0, checked.error)
                   ELSE Merged(c0, o, n)} :
           /\ Put(r, c)
           /\ options' = IF checked.threw THEN options
                         ELSE RetainedOptions(options, o)
  /\ UNCHANGED <<impl, setup, setupError>>

\* executeGraphQL of request r settles: the data, the errors, the next
\* handler, which returns.
ExecuteSettlesC(r) ==
  /\ pc[r] = "awaitExecute"
  /\ \E res \in ConcExecutionResults :
       \E c0 \in {[Cur(r) EXCEPT !.result = res]} :
         \E c1 \in {[c0 EXCEPT !.resBody = BodyAfterExecution(c0.resBody, res)]} :
           \E c \in {IF res.threw THEN Throws(c0, InvocationFailure)
                     ELSE IF res.errors.has THEN Throws(c1, ResultFailure(res))
                     ELSE [c1 EXCEPT !.resStatus = 200, !.pc = "done"]} :
             Put(r, c)
  /\ UNCHANGED <<impl, setup, options, setupError>>

\* errorHandler of request r: the catch block.
CatchC(r) ==
  /\ pc[r] = "catch"
  /\ \E httpError \in {HandledError(thrown[r])},
        event \in {EmittedValue(thrown[r])} :
       \E c \in {[Cur(r) EXCEPT
                    !.resStatus = httpError.status,
                    !.resBody = BodyWithErrors(resBody[r], httpError),
                    !.emitted = Append(emitted[r], event),
                    !.pc = "done"]} :
         Put(r, c)
  /\ UNCHANGED <<impl, setup, options, setupError>>

\* The response of request r is sent.
RespondC(r) ==
  /\ pc[r] = "done"
  /\ Put(r, NewRequest)
  /\ UNCHANGED <<impl, setup, options, setupError>>

NextC ==
  \/ SetupC
  \/ \E r \in Requests : StartC(r)
  \/ \E r \in Requests : OverrideResolvesC(r)
  \/ \E r \in Requests : ExecuteSettlesC(r)
  \/ \E r \in Requests : CatchC(r)
  \/ \E r \in Requests : RespondC(r)

SpecC == InitC /\ [][NextC]_vars

\* The keys execute hands to executeGraphQL from the request options.
ExecutionKeys == {"schema"} \cup PassThrough

\* The request options of r are the closure's options with the properties
\* of r's own override result on top, key by key.
OwnOptions(r) ==
  \A k \in ExecutionKeys :
    Get(requestOptions[r], k) =
      IF overrideResult[r].t = "object" /\ k \in DOMAIN overrideResult[r].o
      THEN overrideResult[r].o[k]
      ELSE Get(options, k)

\* C12: under any interleaving, no request changes the options retained at
\* setup, and the options each request validates and executes with are those
\* options overlaid, key by key, with that request's own override result.
C12_Isolation ==
  /\ [](\A r \in Requests :
          pc[r] = "awaitExecute" \/ requestOptions[r] # Value("undefined")
            => OwnOptions(r))
  /\ [][setup = "installed" => options' = options]_vars

C12_Witness ==
  /\ pc[1] = "awaitExecute" /\ pc[2] = "awaitExecute"
  /\ overrideResult[1] # overrideResult[2]
  /\ Get(requestOptions[1], "contextValue").id = "override"
  /\ Get(requestOptions[2], "contextValue").id = "static"

\* The request options are merged and define no schema.
NoSchemaMerged ==
  /\ requestOptions # Value("undefined")
  /\ Get(requestOptions, "schema").t = "undefined"

\* C13: a request whose merged options define no schema fails with an error
\* that is not exposed, and neither validate nor executeGraphQL is invoked
\* for it.
C13_SchemaRequired ==
  NoSchemaMerged =>
    /\ calls.validate = 0 /\ calls.execute = 0
    /\ pc \in {"catch", "done"} =>
         thrown.kind # "none" /\ thrown.expose # "true"

\* The event carries the value thrown: its kind, message and graphqlErrors,
\* and a value that is no Error as it is.
SameValue(event, error) ==
  /\ event.kind = error.kind
  /\ event.message = error.message
  /\ event.gql = error.gql
  /\ error.kind = "string" => event = error

\* C14: errorHandler emits the error event once for a request whose chain
\* threw and never otherwise; the event carries the value thrown, exposed or
\* not; when the chain returns, errorHandler emits nothing and leaves the
\* status and the body as they are.
C14_ErrorEvent ==
  /\ [](/\ Len(emitted) <= 1
        /\ pc = "done" => (thrown.kind # "none" <=> Len(emitted) = 1)
        /\ pc # "done" => emitted = <<>>
        /\ Len(emitted) = 1 => SameValue(emitted[1], thrown))
  /\ [][(pc = "downstream" /\ pc' = "done")
          => /\ emitted' = <<>>
             /\ resStatus' = resStatus
             /\ resBody' = resBody]_vars

C14_Witness ==
  /\ pc = "done" /\ Len(emitted) = 1
  /\ thrown.kind = "Error" /\ thrown.status = 0
  /\ resBody.errors = GenericErrors
  /\ emitted[1].message = <<"secret">>

\* C15: a response body with an errors field has at least one error in it.
C15_ErrorsNonEmpty ==
  resBody.hasErrors => Len(resBody.errors) >= 1

====
